---------------------------- MODULE Spec2Model ----------------------------
(***************************************************************************)
(* A model of mastodon_tools: MastodonUser (user.py), the identity         *)
(* resolution and the paginated fetch loops, and MastodonSwimmer           *)
(* (swimmer.py), the swim-log parser and the statistics.                   *)
(*                                                                         *)
(* Three groups of state:                                                  *)
(*   - the date resolver's inputs and result (SpecDate);                   *)
(*   - a fetched snapshot and the results computed from it (SpecStats,     *)
(*     SpecRuns);                                                          *)
(*   - the property-evaluation machine of one MastodonSwimmer object: the  *)
(*     call stack of the properties being evaluated, the GETs issued and   *)
(*     the outcome of the query, while the machine's clock runs (Spec).    *)
(***************************************************************************)
EXTENDS Integers, Sequences, FiniteSets, TLC

VARIABLES
    \* ---- the date resolver (SpecDate)
    dDay,       \* get_swim_date's 'day' argument
    dNow,       \* get_swim_date's 'now' argument, an aware UTC datetime: hours since the epoch
    dOut,       \* what get_swim_date returned, or NoDate
    \* ---- the clock and the timezone of the machine the tool runs on
    today,      \* datetime.now().date(): the local date, days since 1970-01-01
    tz,         \* gettz(None): the local timezone, hours east of UTC
    \* ---- the remote server
    wfDoc,      \* the Webfinger document's "links"
    dirPages,   \* the directory endpoint's chain of pages
    stPages,    \* the statuses endpoint's chain of pages
    \* ---- the snapshot computations (SpecStats, SpecRuns)
    snapshot,   \* the mapping MastodonUser.statuses returned
    swimsOut,   \* what MastodonSwimmer.swims returned or raised
    statsOut,   \* what MastodonSwimmer.statistics returned or raised
    seenStats,  \* every Statistics value returned so far
    \* ---- one MastodonSwimmer object and the query running on it (Spec)
    email,      \* the handle given to __init__: its parts between the "@" signs
    phase,      \* "new" | "ready" | "running" | "done"
    query,      \* the property the caller reads
    stack,      \* the properties being evaluated, innermost first
    ret,        \* the value the last finished property returned
    outcome,    \* the query's result: a value or the exception raised
    gets,       \* every requests.get issued, in order
    lastFetch,  \* the last run of a fetch loop: its GETs and how it ended
    divided     \* every divisor average_distance divided by

dateVars == <<dDay, dNow, dOut>>
clockVars == <<today, tz>>
serverVars == <<wfDoc, dirPages, stPages>>
statVars == <<snapshot, swimsOut, statsOut, seenStats>>
pipeVars == <<email, phase, query, stack, ret, outcome, gets, lastFetch, divided>>
vars == <<dateVars, clockVars, serverVars, statVars, pipeVars>>

(***************************************************************************)
(* Bounds of the model.                                                    *)
(***************************************************************************)
MaxNowDays == 8         \* get_swim_date: reference instants span this many days
MaxTzHours == 11        \* timezones from UTC-MaxTzHours to UTC+MaxTzHours
MaxDaysLeft == 2        \* the clock reads 31 December or up to this many days before
MaxPosts == 3           \* statuses of the account in a snapshot

(***************************************************************************)
(* Calendar arithmetic: datetime.date as a day number (days since          *)
(* 1970-01-01), the proleptic Gregorian calendar of Python's datetime.     *)
(***************************************************************************)
DaysFromCivil(y, m, d) ==
    LET yy  == IF m <= 2 THEN y - 1 ELSE y
        era == yy \div 400
        yoe == yy - era * 400
        mp  == IF m > 2 THEN m - 3 ELSE m + 9
        doy == (153 * mp + 2) \div 5 + d - 1
        doe == yoe * 365 + yoe \div 4 - yoe \div 100 + doy
    IN  era * 146097 + doe - 719468

CivilFromDays(z0) ==
    LET z   == z0 + 719468
        era == z \div 146097
        doe == z - era * 146097
        yoe == (doe - doe \div 1460 + doe \div 36524 - doe \div 146096) \div 365
        doy == doe - (365 * yoe + yoe \div 4 - yoe \div 100)
        mp  == (5 * doy + 2) \div 153
        d   == doy - (153 * mp + 2) \div 5 + 1
        m   == IF mp < 10 THEN mp + 3 ELSE mp - 9
        y   == yoe + era * 400 + (IF m <= 2 THEN 1 ELSE 0)
    IN  [y |-> y, m |-> m, d |-> d]

\* date.weekday(): Monday is 0; 1970-01-01 was a Thursday
weekday(z) == (z + 3) % 7

\* date.strftime("%Y-%m-%d"): the three fields of the text
strftime(z) == CivilFromDays(z)

\* datetime.strptime(text, "%Y-%m-%d"): the sort key of swims
strptime(t) == DaysFromCivil(t.y, t.m, t.d)

\* list(calendar.day_name)
day_name == <<"Monday", "Tuesday", "Wednesday", "Thursday", "Friday", "Saturday", "Sunday">>

\* the day tokens the log pattern captures
DayTokens == {day_name[i] : i \in 1..7} \cup {"Today", "Yesterday"}

\* list.index(day), 0-based
DayIndex(day) == CHOOSE i \in 0..6 : day_name[i + 1] = day

\* now.astimezone(tz).date(): the local date of an instant given in hours since the epoch
LocalDate(nowHours, zone) == (nowHours + zone) \div 24

(***************************************************************************)
(* get_swim_date (swimmer.py 14-66).                                       *)
(***************************************************************************)
\* get_swim_date without lines 63-64: a weekday token naming the reference day
\* resolves to the reference day itself
get_swim_date_same_day(day, now, zone) ==
    LET local == LocalDate(now, zone)
    IN  IF day = "Today" THEN local
        ELSE IF day = "Yesterday" THEN local - 1
        ELSE local - ((weekday(local) - DayIndex(day)) % 7)

get_swim_date(day, now, zone) ==
    LET local == LocalDate(now, zone)
    IN  IF day = "Today" THEN local
        ELSE IF day = "Yesterday" THEN local - 1
        ELSE LET diff0 == (weekday(local) - DayIndex(day)) % 7
                 diff  == IF diff0 = 0 THEN 7 ELSE diff0
             IN  local - diff

NoDate == 0 - 1

\* 2024-06-10T00:00Z, a Monday: the first reference instant tried
BaseNow == DaysFromCivil(2024, 6, 10) * 24

TzOffsets == (0 - MaxTzHours)..MaxTzHours

\* F applied to the value of e, e evaluated once (a local variable of the code)
With(e, F(_)) == CHOOSE y \in {F(x) : x \in {e}} : TRUE

(***************************************************************************)
(* Results of a property read: the value returned, or the exception        *)
(* raised (its class and the property that raised it).                     *)
(***************************************************************************)
Val(v) == [kind |-> "value", v |-> v]
Err(cls, at) == [kind |-> "error", cls |-> cls, at |-> at]
None == [kind |-> "none"]

(***************************************************************************)
(* Python dicts keep insertion order: a mapping is a sequence of           *)
(* [k, v] pairs with distinct keys; d[k] = v on a key already present      *)
(* replaces the value and keeps the key's place.                           *)
(***************************************************************************)
DictKeys(d) == {d[i].k : i \in 1..Len(d)}

DictGet(d, k) == d[CHOOSE i \in 1..Len(d) : d[i].k = k].v

DictSet(d, k, v) ==
    IF k \in DictKeys(d)
    THEN [i \in 1..Len(d) |-> IF d[i].k = k THEN [k |-> k, v |-> v] ELSE d[i]]
    ELSE Append(d, [k |-> k, v |-> v])

\* dict.values()
DictValues(d) == [i \in 1..Len(d) |-> d[i].v]

(***************************************************************************)
(* Text.  A post's content is a sequence of tokens: a literal piece of     *)
(* text, or a run of the characters 0-9 and "." (what the two numeric      *)
(* runs of the pattern capture), kept character by character.              *)
(***************************************************************************)
Lit(s) == [t |-> "lit", s |-> s, c |-> <<>>]
Num(c) == [t |-> "num", s |-> "", c |-> c]

Digits == <<"0", "1", "2", "3", "4", "5", "6", "7", "8", "9">>

IsDigit(ch) == \E i \in 1..10 : Digits[i] = ch

DigitVal(ch) == (CHOOSE i \in 1..10 : Digits[i] = ch) - 1

AllDigits(c) == \A i \in 1..Len(c) : IsDigit(c[i])

RECURSIVE DigitsValue(_)
\* the integer a run of digits spells
DigitsValue(c) ==
    IF c = <<>> THEN 0
    ELSE DigitsValue(SubSeq(c, 1, Len(c) - 1)) * 10 + DigitVal(c[Len(c)])

(***************************************************************************)
(* regex (swimmer.py 69-71) and re.search.  The pattern is, in order: the   *)
(* text "<p>"; the group day, one of the nine day tokens; any run of       *)
(* characters but a line break, as long as possible; the text ": "; the    *)
(* group lapcount, a possibly empty run of digits and dots; the text       *)
(* " laps for "; the group distance, a possibly empty run of digits; the   *)
(* letter "m".  The match starts at the leftmost place that can be         *)
(* completed, and the greedy run takes the last ": " that can be.          *)
(***************************************************************************)
IsLit(tok, s) == tok.t = "lit" /\ tok.s = s

\* the tail ": " lapcount " laps for " distance "m" starting at token j
TailAt(content, j) ==
    LET n     == Len(content)
        hasL  == j + 1 <= n /\ content[j + 1].t = "num"
        afterL == IF hasL THEN j + 2 ELSE j + 1
        hasD  == afterL + 1 <= n /\ content[afterL + 1].t = "num"
                    /\ AllDigits(content[afterL + 1].c)
        afterD == IF hasD THEN afterL + 2 ELSE afterL + 1
    IN  [ok       |-> /\ j <= n /\ IsLit(content[j], ": ")
                      /\ afterL <= n /\ IsLit(content[afterL], " laps for ")
                      /\ afterD <= n /\ IsLit(content[afterD], "m"),
         lapcount |-> IF hasL THEN content[j + 1].c ELSE <<>>,
         distance |-> IF hasD THEN content[afterL + 1].c ELSE <<>>]

\* the positions (i, j) at which the pattern matches: "<p>" at i, ": " at j
MatchAt(content, i, j) ==
    /\ i + 1 <= Len(content) /\ j >= i + 2
    /\ IsLit(content[i], "<p>")
    /\ content[i + 1].t = "lit" /\ content[i + 1].s \in DayTokens
    /\ \A k \in (i + 2)..(j - 1) : ~IsLit(content[k], "\n")
    /\ TailAt(content, j).ok

NoMatch == [matched |-> FALSE]

regex_search(content) ==
    LET starts == {i \in 1..Len(content) : \E j \in 1..Len(content) : MatchAt(content, i, j)}
    IN  IF starts = {} THEN NoMatch
        ELSE LET i == CHOOSE a \in starts : \A b \in starts : a <= b
                 ends == {j \in 1..Len(content) : MatchAt(content, i, j)}
                 j == CHOOSE a \in ends : \A b \in ends : a >= b
                 tail == TailAt(content, j)
             IN  [matched |-> TRUE, day |-> content[i + 1].s,
                  lapcount |-> tail.lapcount, distance |-> tail.distance]

(***************************************************************************)
(* float: IEEE 754 binary64, as float() and + on floats compute it.  A     *)
(* positive float is m * 2^e with m a natural of exactly MantissaBits      *)
(* bits; zero has m = 0.  A natural is kept as its digits in base 2^15,    *)
(* least significant first, without leading zero digits.                   *)
(***************************************************************************)
MantissaBits == 53

Base == 2^15

\* the digits x (each below 2^31) with the carries propagated
RECURSIVE CarryUpTo(_, _)
CarryUpTo(x, i) ==
    IF i = 0 THEN [s |-> <<>>, carry |-> 0]
    ELSE With(CarryUpTo(x, i - 1), LAMBDA low :
         With(x[i] + low.carry, LAMBDA t :
              [s |-> Append(low.s, t % Base), carry |-> t \div Base]))

\* without the leading zero digits
Trim(x) ==
    LET used == {i \in 1..Len(x) : x[i] # 0}
    IN  IF used = {} THEN <<>>
        ELSE SubSeq(x, 1, CHOOSE i \in used : \A j \in used : j <= i)

Normalize(x) ==
    With(CarryUpTo(x, Len(x)), LAMBDA r :
         Trim(IF r.carry > 0 THEN Append(r.s, r.carry) ELSE r.s))

\* a natural below 2^31 as digits
NatDigits(n) == Normalize(<<n>>)

DigitAt(x, i) == IF i <= Len(x) THEN x[i] ELSE 0

AddNat(a, b) ==
    Normalize([i \in 1..(IF Len(a) > Len(b) THEN Len(a) ELSE Len(b)) |->
                   DigitAt(a, i) + DigitAt(b, i)])

\* x * 2^k
ShiftLeft(x, k) ==
    Normalize([i \in 1..(k \div 15) |-> 0] \o [i \in 1..Len(x) |-> x[i] * 2^(k % 15)])

\* x \div 2^k
ShiftRight(x, k) ==
    LET whole == k \div 15
        part  == k % 15
        y     == SubSeq(x, whole + 1, Len(x))
    IN  Trim([i \in 1..Len(y) |->
                 (y[i] \div 2^part) + (DigitAt(y, i + 1) % 2^part) * 2^(15 - part)])

\* the number of bits of x
BitLen(x) ==
    IF x = <<>> THEN 0
    ELSE 15 * (Len(x) - 1) + (CHOOSE n \in 1..15 : 2^(n - 1) <= x[Len(x)] /\ x[Len(x)] < 2^n)

\* bit i of x, bit 1 the least significant
BitAt(x, i) == (DigitAt(x, (i - 1) \div 15 + 1) \div 2^((i - 1) % 15)) % 2

RECURSIVE DivNat(_, _, _, _)
\* digits 1..i of x (with r carried in from above) divided by the small number d
DivNat(x, d, i, r) ==
    IF i = 0 THEN [q |-> <<>>, r |-> r]
    ELSE With(r * Base + x[i], LAMBDA cur :
         With(DivNat(x, d, i - 1, cur % d), LAMBDA rest :
              [q |-> Append(rest.q, cur \div d), r |-> rest.r]))

FloatZero == [m |-> <<>>, e |-> 0]

\* round-to-nearest, ties to even: the natural q of at least MantissaBits bits
\* (times 2^e, plus a nonzero rest below it when sticky) to a float
RoundFloat(q, sticky, e) ==
    LET drop  == BitLen(q) - MantissaBits
        kept  == ShiftRight(q, drop)
        guard == IF drop >= 1 THEN BitAt(q, drop) ELSE 0
        low   == sticky \/ \E i \in 1..(drop - 1) : BitAt(q, i) = 1
        up    == guard = 1 /\ (low \/ BitAt(kept, 1) = 1)
        m1    == IF up THEN AddNat(kept, <<1>>) ELSE kept
    IN  IF BitLen(m1) > MantissaBits
        THEN [m |-> ShiftRight(m1, 1), e |-> e + drop + 1]
        ELSE [m |-> m1, e |-> e + drop]

\* x + y on floats
FloatAdd(x, y) ==
    IF x = FloatZero THEN y
    ELSE IF y = FloatZero THEN x
    ELSE LET e == IF x.e < y.e THEN x.e ELSE y.e
         IN  With(AddNat(ShiftLeft(x.m, x.e - e), ShiftLeft(y.m, y.e - e)),
                  LAMBDA sum : RoundFloat(sum, FALSE, e))

RECURSIVE Pow10(_)
Pow10(f) == IF f = 0 THEN 1 ELSE 10 * Pow10(f - 1)

\* the characters of c that are digits, in order
OnlyDigits(c) == SelectSeq(c, IsDigit)

\* the number of digits after the dot (0 without a dot)
FractionDigits(c) ==
    IF \E i \in 1..Len(c) : c[i] = "."
    THEN Len(c) - (CHOOSE i \in 1..Len(c) : c[i] = ".")
    ELSE 0

\* float(text) of a run of digits and dots: the nearest float to the decimal it
\* spells, ValueError when it spells none
float(c) ==
    IF Cardinality({i \in 1..Len(c) : c[i] = "."}) > 1 \/ OnlyDigits(c) = <<>>
    THEN Err("ValueError", "float")
    ELSE With(DigitsValue(OnlyDigits(c)), LAMBDA n :
         With(Pow10(FractionDigits(c)), LAMBDA d :
         With(MantissaBits + 3 - BitLen(NatDigits(n)) + BitLen(NatDigits(d)), LAMBDA k :
         With(ShiftLeft(NatDigits(n), k), LAMBDA num :
         With(DivNat(num, d, Len(num), 0), LAMBDA dv :
         With(Trim(dv.q), LAMBDA q :
              IF n = 0 THEN Val(FloatZero)
              ELSE Val(RoundFloat(q, dv.r # 0, 0 - k))))))))

\* int(text) of a run of digits
int(c) == IF c = <<>> \/ ~AllDigits(c) THEN Err("ValueError", "int") ELSE Val(DigitsValue(c))

(***************************************************************************)
(* The fetch loop's body (user.py 150-153, 252-255): every record of a     *)
(* page is stored under its key ("uri" for the directory, "id" for the     *)
(* statuses).                                                              *)
(***************************************************************************)
RECURSIVE MergePage(_, _, _)
MergePage(result, page, key) ==
    IF page = <<>> THEN result
    ELSE With(DictSet(result, Head(page)[key], Head(page)), LAMBDA stored :
              MergePage(stored, Tail(page), key))

\* response.links of page i of a chain: the server links page i to page i + 1
Links(pages, i) == IF i < Len(pages) THEN [next |-> i + 1] ELSE [prev |-> i]

\* a loop that never follows a next link
HasNext_never(links) == FALSE

\* user.py 156, 258
HasNext(links) == "next" \in DOMAIN links

RECURSIVE FetchFrom(_, _, _, _)
\* the whole loop from page i on, every GET answered (user.py 138-160, 240-262)
FetchFrom(pages, i, result, key) ==
    With(MergePage(result, pages[i], key), LAMBDA merged :
         IF HasNext(Links(pages, i))
         THEN FetchFrom(pages, Links(pages, i).next, merged, key)
         ELSE merged)

(***************************************************************************)
(* MastodonSwimmer.swims (swimmer.py 78-117) on the statuses mapping.      *)
(***************************************************************************)
\* parse(created_at).replace(tzinfo=UTC): hours since the epoch
ParseCreated(c) == DaysFromCivil(c.y, c.m, c.d) * 24 + c.hh

\* the filter of lines 109-110; str(year) is a prefix of the text exactly when the
\* text's year field is that year
Qualifies(status, now) ==
    /\ \E i \in 1..Len(status.tags) : status.tags[i].name = "swim"
    /\ status.created_at.y = CivilFromDays(now).y

\* lines 81-89 for one status whose content matched
SwimEntry(status, zone) ==
    LET m == regex_search(status.content)
    IN  [date     |-> strftime(get_swim_date(m.day, ParseCreated(status.created_at), zone)),
         laps     |-> m.lapcount,
         distance |-> m.distance,
         uri      |-> status.uri]

RECURSIVE SortedByDate_ties_reversed(_)
\* a sort that puts an entry before the entries of the same date already placed
SortedByDate_ties_reversed(entries) ==
    IF entries = <<>> THEN <<>>
    ELSE With(SortedByDate_ties_reversed(SubSeq(entries, 1, Len(entries) - 1)), LAMBDA done :
         With(entries[Len(entries)], LAMBDA x :
         With(Cardinality({i \in 1..Len(done) :
                              strptime(done[i].date) < strptime(x.date)}), LAMBDA p :
              SubSeq(done, 1, p) \o <<x>> \o SubSeq(done, p + 1, Len(done)))))

RECURSIVE SortedByDate(_)
\* sorted(result, key=strptime(date)): stable
SortedByDate(entries) ==
    IF entries = <<>> THEN <<>>
    ELSE With(SortedByDate(SubSeq(entries, 1, Len(entries) - 1)), LAMBDA done :
         With(entries[Len(entries)], LAMBDA x :
         With(Cardinality({i \in 1..Len(done) :
                              strptime(done[i].date) <= strptime(x.date)}), LAMBDA p :
              SubSeq(done, 1, p) \o <<x>> \o SubSeq(done, p + 1, Len(done)))))

SwimEntries(statuses, now, zone) ==
    With(SelectSeq(DictValues(statuses), LAMBDA st : Qualifies(st, now)), LAMBDA kept :
         IF \E i \in 1..Len(kept) : ~regex_search(kept[i].content).matched
         THEN Err("TypeError", "swims")     \* None["day"]
         ELSE With([i \in 1..Len(kept) |-> SwimEntry(kept[i], zone)], LAMBDA result :
                   Val(SortedByDate(result))))

(***************************************************************************)
(* The statistics (swimmer.py 119-165), each on the entries swims gave.    *)
(***************************************************************************)
Goal == 100000

LapLength == 25

RECURSIVE LapsSum(_)
\* sum(float(swim["laps"]) ...): left to right, from 0
LapsSum(entries) ==
    IF entries = <<>> THEN Val(FloatZero)
    ELSE With(LapsSum(SubSeq(entries, 1, Len(entries) - 1)), LAMBDA before :
         With(float(entries[Len(entries)].laps), LAMBDA x :
              IF before.kind = "error" THEN before
              ELSE IF x.kind = "error" THEN x
              ELSE Val(FloatAdd(before.v, x.v))))

RECURSIVE DistanceSum(_)
DistanceSum(entries) ==
    IF entries = <<>> THEN Val(0)
    ELSE With(DistanceSum(SubSeq(entries, 1, Len(entries) - 1)), LAMBDA before :
         With(int(entries[Len(entries)].distance), LAMBDA x :
              IF before.kind = "error" THEN before
              ELSE IF x.kind = "error" THEN x
              ELSE Val(before.v + x.v)))

RemainingDistance(distance) == Goal - distance

RemainingDays(entries, now) ==
    LET last_day_of_year == DaysFromCivil(CivilFromDays(now).y, 12, 31)
        days == last_day_of_year - now
    IN  IF \E i \in 1..Len(entries) : entries[i].date = strftime(now)
        THEN days - 1 ELSE days

\* math.ceil(a / b) for b > 0: the quotient is far from the next integer by at
\* least 1/b, so the float division does not change the ceiling
CeilDiv(a, b) == 0 - ((0 - a) \div b)

\* line 148: the guard of the quotient
HasDaysLeft(days) == days > 0

\* line 147: remaining_distance / remaining_days, then math.ceil
Quotient(distance, days) ==
    IF days = 0 THEN Err("ZeroDivisionError", "average_distance")
    ELSE Val(CeilDiv(distance, days))

\* lines 146-150: the guard reads remaining_days, then the quotient reads
\* remaining_distance and remaining_days again
AverageDistance(days_guard, distance, days_div) ==
    IF HasDaysLeft(days_guard) THEN Quotient(distance, days_div)
    ELSE Val(0)

AverageLaps(avg_distance) == CeilDiv(avg_distance, LapLength)

\* statistics (lines 157-165) of one snapshot: every property reads the same
\* statuses and the same clock
Statistics(statuses, now, zone) ==
    With(SwimEntries(statuses, now, zone), LAMBDA sw :
    IF sw.kind = "error" THEN sw
    ELSE With(LapsSum(sw.v), LAMBDA laps :
    IF laps.kind = "error" THEN laps
    ELSE With(DistanceSum(sw.v), LAMBDA dist :
    IF dist.kind = "error" THEN dist
    ELSE With(RemainingDays(sw.v, now), LAMBDA days :
         With(AverageDistance(days, RemainingDistance(dist.v), days), LAMBDA avg :
    IF avg.kind = "error" THEN avg
    ELSE Val([total_laps |-> laps.v,
              total_distance |-> dist.v,
              remaining_distance |-> RemainingDistance(dist.v),
              remaining_days |-> days,
              required_average_distance |-> avg.v,
              required_average_laps |-> AverageLaps(avg.v)]))))))

(***************************************************************************)
(* The environment of the snapshot computations: the clock, the timezone   *)
(* and the account's posts.                                                *)
(***************************************************************************)
YearEnd == DaysFromCivil(2024, 12, 31)

Todays == {YearEnd - k : k \in 0..MaxDaysLeft}

LocalZones == {0, MaxTzHours}

Chars(n) == [i \in 1..Len(n) |-> n[i]]

Post(id, y, m, d, hh, tags, content) ==
    [id |-> id,
     created_at |-> [y |-> y, m |-> m, d |-> d, hh |-> hh],
     tags |-> [i \in 1..Len(tags) |-> [name |-> tags[i]]],
     content |-> content,
     uri |-> <<"https://social.example/users/swimmer/statuses", id>>]

\* the posts an account may hold
Pool ==
    << Post("1", 2024, 12, 31, 8, <<"swim">>,
            <<Lit("<p>"), Lit("Today"), Lit(": "), Num(<<"0", ".", "1">>),
              Lit(" laps for "), Num(<<"1", "0", "0", "0">>), Lit("m"), Lit("</p>")>>),
       Post("2", 2024, 12, 30, 20, <<"fitness", "swim">>,
            <<Lit("<p>"), Lit("Today"), Lit(" after work: easy"), Lit(": "),
              Num(<<"0", ".", "2">>), Lit(" laps for "), Num(<<"5", "0", "0">>),
              Lit("m"), Lit("</p>")>>),
       Post("3", 2024, 12, 31, 9, <<"swim">>,
            <<Lit("<p>"), Lit("Yesterday"), Lit(" swim"), Lit(": "),
              Num(<<"0", ".", "3">>), Lit(" laps for "),
              Num(<<"1", "0", "0", "0", "0", "0">>), Lit("m"), Lit("</p>")>>),
       Post("4", 2024, 12, 29, 7, <<"swim">>,
            <<Lit("<p>"), Lit("Rest day, the pool is closed"), Lit("</p>")>>),
       Post("5", 2024, 12, 30, 7, <<"run">>,
            <<Lit("<p>"), Lit("Monday"), Lit(" swim"), Lit(": "), Num(<<"4", "0">>),
              Lit(" laps for "), Num(<<"1", "0", "0", "0">>), Lit("m"), Lit("</p>")>>),
       Post("6", 2023, 12, 31, 8, <<"swim">>,
            <<Lit("<p>"), Lit("Sunday"), Lit(" swim"), Lit(": "), Num(<<"4", "0", ".", "5">>),
              Lit(" laps for "), Num(<<"1", "0", "1", "2">>), Lit("m"), Lit("</p>")>>),
       Post("7", 2024, 12, 31, 23, <<"swim">>,
            <<Lit("<p>"), Lit("Tuesday"), Lit(" swim"), Lit(": "), Num(<<"6", "0">>),
              Lit(" laps for "), Num(<<"1", "5", "0", "0">>), Lit("m"), Lit("</p>")>>) >>

\* the posts numbered in I, in the order of their numbers
Subsequence(pool, I) ==
    [j \in 1..Cardinality(I) |->
        pool[CHOOSE i \in I : Cardinality({h \in I : h < i}) = j - 1]]

PostSets == {I \in SUBSET (1..Len(Pool)) : Cardinality(I) <= MaxPosts}

\* every way of presenting the records recs: an order and a cut into pages
Arrangements(recs) ==
    LET n == Len(recs)
        orders == {f \in [1..n -> 1..n] : \A a, b \in 1..n : f[a] = f[b] => a = b}
        cuts == SUBSET (1..(n - 1))
        Pages(f, c) ==
            LET ends == c \cup {n}
                ordered == [j \in 1..Cardinality(ends) |->
                              CHOOSE e \in ends : Cardinality({h \in ends : h < e}) = j - 1]
            IN  [j \in 1..Len(ordered) |->
                    [h \in 1..(ordered[j] - (IF j = 1 THEN 0 ELSE ordered[j - 1])) |->
                        recs[f[(IF j = 1 THEN 0 ELSE ordered[j - 1]) + h]]]]
    IN  IF n = 0 THEN {<< <<>> >>}
        ELSE {Pages(f, c) : f \in orders, c \in cuts}

RECURSIVE Flatten(_)
Flatten(pages) == IF pages = <<>> THEN <<>> ELSE Head(pages) \o Flatten(Tail(pages))

(***************************************************************************)
(* Idle values of the groups of state a specification does not use.        *)
(***************************************************************************)
IdleDate == dDay = "Today" /\ dNow = BaseNow /\ dOut = NoDate

IdleClock == today = YearEnd /\ tz = 0

IdleStats == snapshot = None /\ swimsOut = None /\ statsOut = None /\ seenStats = {}

\* no fetch loop has run yet
NoFetch == [ep |-> "", issued |-> <<>>, end |-> "none", fault |-> "ok", result |-> <<>>]

IdlePipe ==
    /\ email = <<>> /\ phase = "idle" /\ query = "" /\ stack = <<>> /\ ret = None
    /\ outcome = None /\ gets = <<>> /\ lastFetch = NoFetch /\ divided = {}

IdleServer == wfDoc = <<>> /\ dirPages = <<>> /\ stPages = <<>>

(***************************************************************************)
(* SpecDate: get_swim_date applied to every day token, reference instant   *)
(* and timezone of the bounds.                                             *)
(***************************************************************************)
InitDate ==
    /\ dDay \in DayTokens
    /\ dNow \in {BaseNow + 6 * k : k \in 0..(4 * MaxNowDays - 1)}
    /\ tz \in TzOffsets
    /\ dOut = NoDate
    /\ today = YearEnd
    /\ IdleServer /\ IdleStats /\ IdlePipe

ApplyGetSwimDate ==
    /\ dOut = NoDate
    /\ dOut' = get_swim_date(dDay, dNow, tz)
    /\ UNCHANGED <<dDay, dNow, clockVars, serverVars, statVars, pipeVars>>

SpecDate == InitDate /\ [][ApplyGetSwimDate]_vars

(***************************************************************************)
(* SpecStats: swims and statistics applied to a fetched snapshot.          *)
(* SpecRuns: the server presents the same records in another arrangement   *)
(* and the statistics are computed again.                                  *)
(***************************************************************************)
InitStats ==
    /\ today \in Todays
    /\ tz \in LocalZones
    /\ \E I \in PostSets : stPages = << Subsequence(Pool, I) >>
    /\ wfDoc = <<>> /\ dirPages = <<>>
    /\ IdleStats /\ IdleDate /\ IdlePipe

\* MastodonUser.statuses with every GET answered
FetchSnapshot ==
    /\ snapshot = None
    /\ snapshot' = Val(FetchFrom(stPages, 1, <<>>, "id"))
    /\ UNCHANGED <<swimsOut, statsOut, seenStats, dateVars, clockVars, serverVars, pipeVars>>

ApplySwims ==
    /\ snapshot.kind = "value" /\ swimsOut = None
    /\ swimsOut' = SwimEntries(snapshot.v, today, tz)
    /\ UNCHANGED <<snapshot, statsOut, seenStats, dateVars, clockVars, serverVars, pipeVars>>

ApplyStatistics ==
    /\ snapshot.kind = "value" /\ statsOut = None
    /\ statsOut' = Statistics(snapshot.v, today, tz)
    /\ seenStats' = IF statsOut'.kind = "value" THEN seenStats \cup {statsOut'.v} ELSE seenStats
    /\ UNCHANGED <<snapshot, swimsOut, dateVars, clockVars, serverVars, pipeVars>>

\* the server pages the same records differently before the next run
Repaginate ==
    /\ statsOut # None
    /\ stPages' \in Arrangements(Flatten(stPages)) \ {stPages}
    /\ snapshot' = None /\ statsOut' = None
    /\ UNCHANGED <<swimsOut, seenStats, wfDoc, dirPages, dateVars, clockVars, pipeVars>>

SpecStats == InitStats /\ [][FetchSnapshot \/ ApplySwims \/ ApplyStatistics]_vars

\* SpecSwims: swims applied to the snapshot of every order and page split in which
\* the server may present the account's posts
InitSwims ==
    /\ today \in Todays
    /\ tz \in LocalZones
    /\ \E I \in PostSets : stPages \in Arrangements(Subsequence(Pool, I))
    /\ wfDoc = <<>> /\ dirPages = <<>>
    /\ IdleStats /\ IdleDate /\ IdlePipe

SpecSwims == InitSwims /\ [][FetchSnapshot \/ ApplySwims]_vars

SpecRuns == InitStats /\ [][FetchSnapshot \/ ApplyStatistics \/ Repaginate]_vars

(***************************************************************************)
(* MastodonUser (user.py): the handle, the URLs and the remote server.     *)
(* A text is kept as its parts: a handle as the parts between its "@"      *)
(* signs, a URL text as origin and path segments.                          *)
(***************************************************************************)
MaxDirPages == 3        \* pages of the directory chain
MaxStPages == 2         \* pages of the statuses chain
MaxTicks == 1           \* midnights that pass while a query runs

Limit == 10

\* a constructor without the validation
validate_email_accepts_all(parts) == TRUE

\* the handle is accepted or not as it stands (user.py 28): one "@" with text on both sides
validate_email(parts) == Len(parts) = 2 /\ parts[1] # "" /\ parts[2] # ""

\* email.split("@")[1]
domain(parts) == parts[2]

\* percent-decoding of one path segment
Unquote(segment) == IF segment = "sw%69mmer" THEN "swimmer" ELSE segment

\* yarl.URL(text): the path is kept decoded
URL(text) ==
    [origin |-> text.origin,
     path   |-> [i \in 1..Len(text.path) |-> Unquote(text.path[i])],
     query  |-> <<>>,
     cursor |-> 0]

\* URL.human_repr(): the text of the decoded URL
human_repr(url) == [origin |-> url.origin, path |-> url.path]

webfinger_url(parts) ==
    [origin |-> <<"https", domain(parts)>>,
     path   |-> <<".well-known", "webfinger">>,
     query  |-> << <<"resource", "acct">> \o parts >>,
     cursor |-> 0]

\* url.with_path("").with_query({})
BaseUrl(url) == [origin |-> url.origin, path |-> <<>>, query |-> <<>>, cursor |-> 0]

\* url / segment
Join(url, segment) == [url EXCEPT !.path = Append(@, segment)]

\* url % query
WithQuery(url, q) == [url EXCEPT !.query = q]

\* the next-page link of a response: the same request with the server's cursor
NextUrl(url, links) == [url EXCEPT !.cursor = links.next]

DirectoryPath == <<"api", "v1", "directory">>

DirectoryQuery == << <<"limit", ToString(Limit)>>, <<"local", "true">> >>

StatusesQuery == << <<"limit", ToString(Limit)>> >>

\* a link filter that falls back on the first link when none is the self link
SelfLink_or_first(links) ==
    IF \E i \in 1..Len(links) :
          links[i].type = "application/activity+json" /\ links[i].rel = "self"
    THEN CHOOSE i \in 1..Len(links) :
            /\ links[i].type = "application/activity+json" /\ links[i].rel = "self"
            /\ \A j \in 1..(i - 1) :
                  ~(links[j].type = "application/activity+json" /\ links[j].rel = "self")
    ELSE IF links = <<>> THEN 0 ELSE 1

\* the first link that is the actor's self link (user.py 87-92), 0 when there is none
SelfLink(links) ==
    IF \E i \in 1..Len(links) :
          links[i].type = "application/activity+json" /\ links[i].rel = "self"
    THEN CHOOSE i \in 1..Len(links) :
            /\ links[i].type = "application/activity+json" /\ links[i].rel = "self"
            /\ \A j \in 1..(i - 1) :
                  ~(links[j].type = "application/activity+json" /\ links[j].rel = "self")
    ELSE 0

\* a membership test that only asks for a directory with records
ProfileKnown_any(key, directory) == directory # <<>>

\* the membership test of user.py 184
ProfileKnown(key, directory) == key \in DictKeys(directory)

\* what reaches the caller when requests.get, raise_for_status or response.json
\* fails inside the try blocks (user.py 71-76, 161-166, 263-270).  A refused
\* connection and a non-2xx status raise a RequestException, which the first
\* handler raises again as a RequestException.  For a body that is not JSON the
\* class depends on the installed requests: its own JSONDecodeError is a
\* RequestException and takes the first handler; json.JSONDecodeError takes the
\* second handler, whose one-argument JSONDecodeError(...) call is a TypeError;
\* simplejson's JSONDecodeError matches no handler and passes through.
RaisedBy(fault) ==
    IF fault = "bad_json" THEN {"RequestException", "TypeError", "JSONDecodeError"}
    ELSE {"RequestException"}

\* handlers that swallow the exception and return the records merged so far
OnFailure_return_partial(result, cls, at) == Val(result)

\* the handlers of the fetch loops: the exception leaves the property, the
\* records merged so far are dropped
OnFailure(result, cls, at) == Err(cls, at)

\* what can happen to one GET
Faults == {"ok", "http_error", "conn_error", "bad_json"}

(***************************************************************************)
(* The remote server: the Webfinger document of the account, the directory *)
(* chain and the statuses chain.                                           *)
(***************************************************************************)
ServerOrigin == <<"https", "social.example">>

ActorId == "109"

ProfilePageLink ==
    [rel |-> "http://webfinger.net/rel/profile-page", type |-> "text/html",
     href |-> [origin |-> ServerOrigin, path |-> <<"@swimmer">>]]

ActorLink(segment) ==
    [rel |-> "self", type |-> "application/activity+json",
     href |-> [origin |-> ServerOrigin, path |-> <<"users", segment>>]]

WebfingerDocs ==
    { <<ProfilePageLink, ActorLink("swimmer")>>,
      <<ProfilePageLink, ActorLink("sw%69mmer")>>,
      <<ProfilePageLink,
        [ActorLink("swimmer") EXCEPT !.type = "application/ld+json"],
        [ActorLink("swimmer") EXCEPT !.rel = "alternate"]>> }

Account(id, name, note) ==
    [id |-> id, acct |-> name, note |-> note,
     uri |-> [origin |-> ServerOrigin, path |-> <<"users", name>>]]

\* page i of a directory of n pages: the account of page i - 1 again when the
\* listing moved while it was read, the page's own account, and the actor on page a
DirectoryPage(i, a, moved) ==
    (IF moved /\ i > 1 THEN <<Account(ToString(100 + i - 1), ToString(i - 1), "moved")>> ELSE <<>>)
    \o <<Account(ToString(100 + i), ToString(i), "")>>
    \o (IF i = a THEN <<Account(ActorId, "swimmer", "")>> ELSE <<>>)

\* the actor is on the last page or on none
DirectoryChains ==
    {[i \in 1..n |-> DirectoryPage(i, IF listed THEN n ELSE 0, moved)] :
        n \in 1..MaxDirPages, listed \in BOOLEAN, moved \in BOOLEAN}

\* the statuses chain: a first page without a swim of the year, then pages of swims
StatusPage(i) ==
    IF i = 1 THEN <<Pool[5], Pool[6]>>
    ELSE IF i = 2 THEN <<Pool[1], Pool[7]>>
    ELSE <<Pool[2], Pool[3]>>

StatusChains == {[i \in 1..m |-> StatusPage(i)] : m \in 1..MaxStPages}

\* the local date when the object is constructed: 30 December
Day0 == YearEnd - 1

Handles == { <<"swimmer", "social.example">>, <<"swimmer.social.example">>, <<"swimmer", "">> }

Queries == {"profile", "statuses_url", "statuses", "swims", "statistics"}

\* which chain a request URL is served from
Endpoint(url) ==
    IF url.path = <<".well-known", "webfinger">> THEN "webfinger"
    ELSE IF url.path = DirectoryPath THEN "directory"
    ELSE "statuses"

Chain(ep) == IF ep = "directory" THEN dirPages ELSE stPages

\* the page a request URL names: the first page when it carries no cursor
PageOf(url) == IF url.cursor = 0 THEN 1 ELSE url.cursor

(***************************************************************************)
(* The evaluation of properties.  Reading a property pushes a frame; a     *)
(* frame reads other properties, issues GETs, and returns or raises.  No   *)
(* property catches what a property it reads raises, so an exception       *)
(* unwinds every frame and ends the query.                                 *)
(***************************************************************************)
Frame(fn) == [fn |-> fn, pc |-> 0, loc |-> <<>>]

In(fn) == phase = "running" /\ stack # <<>> /\ Head(stack).fn = fn

\* the running frame at its next position, keeping v
Then(pc, v) == [fn |-> Head(stack).fn, pc |-> pc, loc |-> v]

Calls(fn, me) ==
    /\ stack' = <<Frame(fn), me>> \o Tail(stack)
    /\ ret' = None
    /\ UNCHANGED <<phase, outcome>>

Returns(v) ==
    /\ stack' = Tail(stack)
    /\ ret' = v
    /\ IF Len(stack) = 1 THEN phase' = "done" /\ outcome' = Val(v)
       ELSE UNCHANGED <<phase, outcome>>

Raises(e) ==
    /\ stack' = <<>>
    /\ ret' = None
    /\ phase' = "done"
    /\ outcome' = e

Settles(r) == IF r.kind = "error" THEN Raises(r) ELSE Returns(r.v)

Quiet == UNCHANGED <<gets, lastFetch, divided>>

Fixed == UNCHANGED <<email, query, dateVars, clockVars, serverVars, statVars>>

\* the machine's clock passes midnight while a query runs; the server's answers
\* stay as they are (requests_cache answers a repeated GET from its cache,
\* __init__.py 9-12)
Tick ==
    /\ phase = "running"
    /\ today < Day0 + MaxTicks
    /\ today' = today + 1
    /\ UNCHANGED <<tz, dateVars, serverVars, statVars, pipeVars>>

\* MastodonUser.__init__ (user.py 17-32)
Construct ==
    /\ phase = "new"
    /\ IF validate_email(email)
       THEN phase' = "ready" /\ UNCHANGED outcome
       ELSE phase' = "done" /\ outcome' = Err("ValueError", "__init__")
    /\ UNCHANGED <<stack, ret>>
    /\ Quiet /\ Fixed

\* the caller reads one property of the object
StartQuery ==
    /\ phase = "ready"
    /\ \E q \in Queries :
          /\ query' = q
          /\ stack' = <<Frame(q)>>
    /\ phase' = "running"
    /\ UNCHANGED <<email, ret, outcome, dateVars, clockVars, serverVars, statVars>>
    /\ Quiet

\* user.py 51-76
webfinger ==
    /\ In("webfinger")
    /\ gets' = Append(gets, webfinger_url(email))
    /\ \E fault \in Faults :
          IF fault = "ok" THEN Returns([links |-> wfDoc])
          ELSE \E cls \in RaisedBy(fault) : Raises(Err(cls, "webfinger"))
    /\ UNCHANGED <<lastFetch, divided>>
    /\ Fixed

\* user.py 78-93
activity_url ==
    /\ In("activity_url")
    /\ IF Head(stack).pc = 0 THEN Calls("webfinger", Then(1, <<>>))
       ELSE IF SelfLink(ret.links) = 0 THEN Raises(Err("StopIteration", "activity_url"))
       ELSE Returns(URL(ret.links[SelfLink(ret.links)].href))
    /\ Quiet /\ Fixed

\* user.py 95-103
mastodon_server ==
    /\ In("mastodon_server")
    /\ IF Head(stack).pc = 0 THEN Calls("activity_url", Then(1, <<>>))
       ELSE Returns(BaseUrl(ret))
    /\ Quiet /\ Fixed

\* user.py 105-113
directory_url ==
    /\ In("directory_url")
    /\ IF Head(stack).pc = 0 THEN Calls("mastodon_server", Then(1, <<>>))
       ELSE Returns(Join(Join(Join(ret, "api"), "v1"), "directory"))
    /\ Quiet /\ Fixed

\* One step of a fetch loop (user.py 134-168, 235-272) in frame fn, which read its
\* seed URL from property seed: position 0 reads the seed URL, position 1 starts
\* with an empty result, position 2 is one turn of the loop: one GET, the merge
\* of its records, and the break or the move to the next link.
FetchStep(fn, seed, q, key) ==
    LET f == Head(stack)
    IN  IF f.pc = 0 THEN Calls(seed, Then(1, <<>>)) /\ Quiet
        ELSE IF f.pc = 1
        THEN /\ stack' = <<Then(2, [url |-> WithQuery(ret, q), result |-> <<>>])>> \o Tail(stack)
             /\ lastFetch' = [NoFetch EXCEPT !.ep = fn, !.end = "running"]
             /\ UNCHANGED <<ret, phase, outcome, gets>>
        ELSE /\ gets' = Append(gets, f.loc.url)
             /\ \E fault \in Faults :
                   IF fault = "ok"
                   THEN LET merged == MergePage(f.loc.result, Chain(fn)[PageOf(f.loc.url)], key)
                        IN
                        IF HasNext(Links(Chain(fn), PageOf(f.loc.url)))
                        THEN /\ stack' = <<Then(2, [url |-> NextUrl(f.loc.url,
                                                       Links(Chain(fn), PageOf(f.loc.url))),
                                                    result |-> merged])>> \o Tail(stack)
                             /\ lastFetch' = [lastFetch EXCEPT !.issued = Append(@, f.loc.url)]
                             /\ UNCHANGED <<ret, phase, outcome>>
                        ELSE /\ Returns(merged)
                             /\ lastFetch' = [lastFetch EXCEPT !.issued = Append(@, f.loc.url),
                                                               !.end = "returned",
                                                               !.result = merged]
                   ELSE \E cls \in RaisedBy(fault) :
                        LET o == OnFailure(f.loc.result, cls, fn)
                        IN   /\ Settles(o)
                             /\ lastFetch' = [lastFetch EXCEPT !.issued = Append(@, f.loc.url),
                                                               !.end = "raised",
                                                               !.fault = fault,
                                                               !.result = o]

\* user.py 115-168
directory ==
    /\ In("directory")
    /\ FetchStep("directory", "directory_url", DirectoryQuery, "uri")
    /\ UNCHANGED divided
    /\ Fixed

\* user.py 170-187: the test reads activity_url and directory, the lookup reads
\* directory and activity_url again
profile ==
    /\ In("profile")
    /\ LET f == Head(stack)
       IN  IF f.pc = 0 THEN Calls("activity_url", Then(1, <<>>))
           ELSE IF f.pc = 1 THEN Calls("directory", Then(2, human_repr(ret)))
           ELSE IF f.pc = 2
           THEN IF ProfileKnown(f.loc, ret) THEN Calls("directory", Then(3, <<>>))
                ELSE Raises(Err("StopIteration", "profile"))
           ELSE IF f.pc = 3 THEN Calls("activity_url", Then(4, ret))
           ELSE IF human_repr(ret) \in DictKeys(f.loc)
                THEN Returns(DictGet(f.loc, human_repr(ret)))
                ELSE Raises(Err("KeyError", "profile"))
    /\ Quiet /\ Fixed

\* user.py 189-197
profile_id ==
    /\ In("profile_id")
    /\ IF Head(stack).pc = 0 THEN Calls("profile", Then(1, <<>>))
       ELSE Returns(ret.id)
    /\ Quiet /\ Fixed

\* user.py 199-214
statuses_url ==
    /\ In("statuses_url")
    /\ LET f == Head(stack)
       IN  IF f.pc = 0 THEN Calls("mastodon_server", Then(1, <<>>))
           ELSE IF f.pc = 1 THEN Calls("profile_id", Then(2, ret))
           ELSE Returns(Join(Join(Join(Join(Join(f.loc, "api"), "v1"), "accounts"),
                                  ret), "statuses"))
    /\ Quiet /\ Fixed

\* user.py 216-272
statuses ==
    /\ In("statuses")
    /\ FetchStep("statuses", "statuses_url", StatusesQuery, "id")
    /\ UNCHANGED divided
    /\ Fixed

\* swimmer.py 77-117
swims ==
    /\ In("swims")
    /\ IF Head(stack).pc = 0 THEN Calls("statuses", Then(1, <<>>))
       ELSE Settles(SwimEntries(ret, today, tz))
    /\ Quiet /\ Fixed

\* swimmer.py 123-125
total_laps ==
    /\ In("total_laps")
    /\ IF Head(stack).pc = 0 THEN Calls("swims", Then(1, <<>>))
       ELSE Settles(LapsSum(ret))
    /\ Quiet /\ Fixed

\* swimmer.py 127-129
total_distance ==
    /\ In("total_distance")
    /\ IF Head(stack).pc = 0 THEN Calls("swims", Then(1, <<>>))
       ELSE Settles(DistanceSum(ret))
    /\ Quiet /\ Fixed

\* swimmer.py 131-133
remaining_distance ==
    /\ In("remaining_distance")
    /\ IF Head(stack).pc = 0 THEN Calls("total_distance", Then(1, <<>>))
       ELSE Returns(RemainingDistance(ret))
    /\ Quiet /\ Fixed

\* swimmer.py 135-142: the clock is read first, the swims after it
remaining_days ==
    /\ In("remaining_days")
    /\ IF Head(stack).pc = 0 THEN Calls("swims", Then(1, today))
       ELSE Returns(RemainingDays(ret, Head(stack).loc))
    /\ Quiet /\ Fixed

\* swimmer.py 144-150: the guard first, then the two operands of the quotient
average_distance ==
    /\ In("average_distance")
    /\ LET f == Head(stack)
       IN  IF f.pc = 0 THEN Calls("remaining_days", Then(1, <<>>))
           ELSE IF f.pc = 1
           THEN IF HasDaysLeft(ret) THEN Calls("remaining_distance", Then(2, <<>>))
                ELSE Returns(0)
           ELSE IF f.pc = 2 THEN Calls("remaining_days", Then(3, ret))
           ELSE Settles(Quotient(f.loc, ret))
    /\ divided' = IF Head(stack).pc = 3 THEN divided \cup {ret} ELSE divided
    /\ UNCHANGED <<gets, lastFetch>>
    /\ Fixed

\* swimmer.py 152-154
average_laps ==
    /\ In("average_laps")
    /\ IF Head(stack).pc = 0 THEN Calls("average_distance", Then(1, <<>>))
       ELSE Returns(AverageLaps(ret))
    /\ Quiet /\ Fixed

StatisticsKeys ==
    <<"total_laps", "total_distance", "remaining_distance", "remaining_days",
      "average_distance", "average_laps">>

\* swimmer.py 156-165: the six properties are read in the order of the dict display
statistics ==
    /\ In("statistics")
    /\ LET f == Head(stack)
           got == IF f.pc = 0 THEN <<>> ELSE Append(f.loc, ret)
       IN  IF f.pc < Len(StatisticsKeys)
           THEN Calls(StatisticsKeys[f.pc + 1], Then(f.pc + 1, got))
           ELSE Returns([total_laps |-> got[1],
                         total_distance |-> got[2],
                         remaining_distance |-> got[3],
                         remaining_days |-> got[4],
                         required_average_distance |-> got[5],
                         required_average_laps |-> got[6]])
    /\ Quiet /\ Fixed

InitPipe ==
    /\ email \in Handles
    /\ phase = "new" /\ query = "" /\ stack = <<>> /\ ret = None /\ outcome = None
    /\ gets = <<>> /\ lastFetch = NoFetch /\ divided = {}
    /\ wfDoc \in WebfingerDocs
    /\ dirPages \in DirectoryChains
    /\ stPages \in StatusChains
    /\ today = Day0 /\ tz = 0
    /\ IdleDate /\ IdleStats

Next ==
    \/ Construct \/ StartQuery \/ Tick
    \/ webfinger \/ activity_url \/ mastodon_server \/ directory_url \/ directory
    \/ profile \/ profile_id \/ statuses_url \/ statuses
    \/ swims \/ total_laps \/ total_distance \/ remaining_distance \/ remaining_days
    \/ average_distance \/ average_laps \/ statistics

Spec == InitPipe /\ [][Next]_vars

(***************************************************************************)
(* Properties of the date resolver and of the snapshot computations.       *)
(***************************************************************************)

\* the statuses of the snapshot that are tagged "swim", created in the current year
\* and whose content matches the log pattern
LoggedSwims ==
    {i \in 1..Len(snapshot.v) :
        /\ Qualifies(snapshot.v[i].v, today)
        /\ regex_search(snapshot.v[i].v.content).matched}

\* C1: listing the swim entries raises no error and returns exactly one entry for
\* each status tagged "swim", created in the current year and matching the log
\* pattern, and no entry for any other status (a tagged status that does not match
\* contributes nothing and raises nothing).
C1_SwimsListsEveryLoggedSwim ==
    swimsOut.kind # "none" =>
        /\ swimsOut.kind = "value"
        /\ Len(swimsOut.v) = Cardinality(LoggedSwims)
        /\ \A i \in LoggedSwims :
              \E j \in 1..Len(swimsOut.v) : swimsOut.v[j].uri = snapshot.v[i].v.uri

\* C2: for a weekday token, get_swim_date returns a date 1 to 7 days before the
\* reference date as seen in the timezone (its day ended at or before the start of
\* the reference day, at most 7 days earlier), and the date's weekday is the token.
C2_WeekdayIsOneToSevenDaysBefore ==
    (dOut # NoDate /\ dDay \notin {"Today", "Yesterday"}) =>
        /\ (dOut + 1) * 24 <= dNow + tz
        /\ dNow + tz < (dOut + 8) * 24
        /\ day_name[weekday(dOut) + 1] = dDay

\* C2's case: the token names the weekday of the reference date itself, on an
\* instant whose local date is not its UTC date
C2_Witness ==
    /\ dOut # NoDate /\ dDay = "Monday"
    /\ weekday(LocalDate(dNow, tz)) = 0
    /\ LocalDate(dNow, tz) # LocalDate(dNow, 0)
    /\ dOut = LocalDate(dNow, tz) - 7

\* the place of the status with this uri in the statuses mapping
PlaceOf(uri) == CHOOSE i \in 1..Len(snapshot.v) : snapshot.v[i].v.uri = uri

\* C11: the sequence swims returns is ordered by non-decreasing date, and two
\* entries of the same date are in the order in which their statuses were
\* fetched (the order of the statuses mapping).
C11_SwimsSortedByDateStable ==
    swimsOut.kind = "value" =>
        \A a, b \in 1..Len(swimsOut.v) :
            a < b =>
                /\ strptime(swimsOut.v[a].date) <= strptime(swimsOut.v[b].date)
                /\ swimsOut.v[a].date = swimsOut.v[b].date =>
                      PlaceOf(swimsOut.v[a].uri) < PlaceOf(swimsOut.v[b].uri)

\* C11's case: swims returned entries it had to move (a later-fetched status with
\* an earlier date) and two entries of one date
C11_Witness ==
    /\ swimsOut.kind = "value" /\ Len(swimsOut.v) >= 3
    /\ \E a, b \in 1..Len(swimsOut.v) :
          a < b /\ swimsOut.v[a].date = swimsOut.v[b].date
    /\ \E a, b \in 1..Len(swimsOut.v) :
          a < b /\ PlaceOf(swimsOut.v[a].uri) > PlaceOf(swimsOut.v[b].uri)

\* C9: for a fixed set of status records the Statistics are the same on every run,
\* however the records are split into pages and in whatever order the pages
\* present them.
C9_SameStatisticsOnEveryRun == Cardinality(seenStats) <= 1

(***************************************************************************)
(* Properties of the identity resolution and of the fetch loops.           *)
(***************************************************************************)

\* the field a fetch loop keys its mapping by
KeyField(ep) == IF ep = "directory" THEN "uri" ELSE "id"

\* C3: a fetch loop that returned issued exactly one GET per page of the chain, in
\* chain order (the seed URL, then each next link), stopped after the page without
\* a next link, and its mapping holds every record of every page: one entry per
\* distinct key, each key bound to the record a page served for it (the later
\* one when two pages served the same key).
C3_OneGetPerPageEveryRecordMerged ==
    lastFetch.end = "returned" =>
        LET pages == Chain(lastFetch.ep)
            recs == Flatten(pages)
            key == KeyField(lastFetch.ep)
        IN  /\ Len(lastFetch.issued) = Len(pages)
            /\ \A i \in 1..Len(pages) :
                  /\ Endpoint(lastFetch.issued[i]) = lastFetch.ep
                  /\ lastFetch.issued[i].cursor = (IF i = 1 THEN 0 ELSE i)
            /\ ~HasNext(Links(pages, Len(pages)))
            /\ Len(lastFetch.result) = Cardinality({recs[j][key] : j \in 1..Len(recs)})
            /\ \A j \in 1..Len(recs) :
                  /\ recs[j][key] \in DictKeys(lastFetch.result)
                  /\ \/ DictGet(lastFetch.result, recs[j][key]) = recs[j]
                     \/ \E h \in (j + 1)..Len(recs) : recs[h][key] = recs[j][key]

\* C3's case: a directory of three or more pages with distinct keys, read to the end
C3_Witness ==
    /\ lastFetch.end = "returned" /\ lastFetch.ep = "directory"
    /\ Len(dirPages) >= 3
    /\ Len(lastFetch.issued) = Len(dirPages)
    /\ Len(lastFetch.result) = Len(Flatten(dirPages))

NoSelfLink ==
    \A i \in 1..Len(wfDoc) :
        ~(wfDoc[i].rel = "self" /\ wfDoc[i].type = "application/activity+json")

\* C4: when the Webfinger document has no link with rel "self" and type
\* "application/activity+json", no GET of the query goes to the directory or to
\* the statuses endpoint, and every query whose Webfinger GET was answered fails
\* with the missing-link error (the StopIteration of next() in activity_url).
C4_NoSelfLinkFailsBeforeDirectory ==
    (NoSelfLink /\ query \in Queries) =>
        /\ \A i \in 1..Len(gets) : Endpoint(gets[i]) = "webfinger"
        /\ phase = "done" =>
              /\ outcome.kind = "error"
              /\ outcome.at # "webfinger" => outcome = Err("StopIteration", "activity_url")

\* C4's case: the statistics query on a document whose links have the right type
\* or the right rel but never both
C4_Witness ==
    /\ NoSelfLink /\ wfDoc # <<>>
    /\ query = "statistics" /\ phase = "done"
    /\ outcome = Err("StopIteration", "activity_url")
    /\ Len(gets) = 1

\* no record of any directory page has the actor's activity URL as its uri
ActorUnlisted ==
    /\ ~NoSelfLink
    /\ \A i \in 1..Len(dirPages) : \A j \in 1..Len(dirPages[i]) :
          dirPages[i][j].uri # human_repr(URL(wfDoc[SelfLink(wfDoc)].href))

\* C5: when no directory record has the actor's activity URL as its uri, the
\* statuses endpoint is never requested, and every query whose Webfinger and
\* directory GETs were all answered fails with the not-found error (the
\* StopIteration raised by profile).
C5_UnlistedActorIsNotFound ==
    (ActorUnlisted /\ query \in Queries) =>
        /\ \A i \in 1..Len(gets) : Endpoint(gets[i]) # "statuses"
        /\ phase = "done" =>
              /\ outcome.kind = "error"
              /\ outcome.at \notin {"webfinger", "directory"} =>
                    outcome = Err("StopIteration", "profile")

\* C5's case: the statuses query, a directory of several pages read to its end
C5_Witness ==
    /\ ActorUnlisted /\ Len(dirPages) >= 2
    /\ query = "statuses" /\ phase = "done"
    /\ lastFetch.ep = "directory" /\ lastFetch.end = "returned"
    /\ outcome = Err("StopIteration", "profile")

\* C6: when a page body of the directory or of the statuses endpoint is not valid
\* JSON, the fetch fails with a JSON decode error, a class other than the
\* RequestException raised for non-2xx responses and connection failures, and
\* that class is what the caller receives.
C6_BadJsonRaisesDecodeError ==
    (lastFetch.end = "raised" /\ lastFetch.fault = "bad_json") =>
        outcome = Err("JSONDecodeError", lastFetch.ep)

\* C8: the required average distance is 0 whenever the remaining days are <= 0 and
\* the computation never divides by zero or by a negative number of days: no
\* query ends in a ZeroDivisionError and every divisor average_distance used is
\* positive.
C8_AverageDistanceGuarded ==
    /\ outcome.kind = "error" => outcome.cls # "ZeroDivisionError"
    /\ \A d \in divided : d > 0

\* the handles of the environment that are well formed
WellFormed == { <<"swimmer", "social.example">> }

\* C7: for a handle that fails validation, construction fails at once with the
\* invalid-handle error (ValueError) and no GET is ever issued.
C7_InvalidHandleFailsWithoutRequests ==
    (email \in Handles \ WellFormed) =>
        /\ gets = <<>>
        /\ phase \in {"new", "done"}
        /\ stack = <<>>
        /\ phase = "done" => outcome = Err("ValueError", "__init__")

\* C7's case: a handle without an "@" has been given to the constructor
C7_Witness ==
    /\ email = <<"swimmer.social.example">>
    /\ phase = "done"
    /\ outcome = Err("ValueError", "__init__")

\* C10: when a page GET of a fetch loop fails (non-2xx status, connection failure
\* or undecodable body) the loop ends there: the failed URL was requested once
\* and is the last GET ever issued, the query ends with the error, and the
\* records merged from earlier pages are not returned.
C10_FailedPageAbortsFetch ==
    /\ [](lastFetch.end = "raised" =>
            /\ phase = "done" /\ stack = <<>>
            /\ outcome.kind = "error" /\ outcome.at = lastFetch.ep
            /\ gets # <<>> /\ gets[Len(gets)] = lastFetch.issued[Len(lastFetch.issued)]
            /\ \A i \in 1..(Len(lastFetch.issued) - 1) :
                  lastFetch.issued[i] # lastFetch.issued[Len(lastFetch.issued)])
    /\ [][lastFetch.end = "raised" => (gets' = gets /\ outcome' = outcome)]_vars

\* C10's case: the statuses fetch fails on a later page, after records of earlier
\* pages were merged
C10_Witness ==
    /\ lastFetch.end = "raised" /\ lastFetch.ep = "statuses"
    /\ lastFetch.fault \in {"http_error", "conn_error", "bad_json"}
    /\ Len(lastFetch.issued) >= 2
    /\ outcome.kind = "error"

====
